---- MODULE Spec2Model ----
(***************************************************************************)
(* The background orchestrator of penny: the task store                    *)
(* (penny/database.py), the polling loop (penny/orchestrator/loop.py),     *)
(* the probes' results and the confidence aggregate                        *)
(* (penny/orchestrator/probes.py) and the escalation engine                *)
(* (penny/orchestrator/escalation.py).                                     *)
(*                                                                         *)
(* Confidences are exact rationals.  A finding's confidence is an integer  *)
(* number of hundredths (0.8 is 80); an aggregate is a reduced fraction    *)
(* <<n, d>> of hundredths (0.8/1.5 is <<160, 3>>).                         *)
(* A Python None / SQL NULL is the empty sequence <<>>; an optional         *)
(* argument that is given is the one-element sequence <<v>>.               *)
(***************************************************************************)
EXTENDS Integers, Sequences, FiniteSets, TLC

(***************************************************************************)
(* Bounds of the model.                                                    *)
(***************************************************************************)
MaxTasks == 2          \* tasks ever created
MaxFindings == 4       \* findings stored on one task
MaxRetryCount == 5     \* largest retry_count a pass may start from
MaxTicks == 3          \* polls slept through
MaxEngineTasks == 1    \* tasks ever created where the engine is called on its own

(***************************************************************************)
(* Program constants.                                                      *)
(***************************************************************************)
POLL_INTERVAL == 30                \* loop.py:18, seconds
HIGH_CONFIDENCE_THRESHOLD == 80    \* loop.py:19, hundredths
HIGH_CONFIDENCE == 80              \* escalation.py:22, hundredths
MEDIUM_CONFIDENCE == 60            \* escalation.py:23, hundredths
DEFAULT_MAX_RETRIES == 3           \* database.py:124
BATCH_LIMIT == 5                   \* loop.py:57
RETRY_DELAY == 60                  \* loop.py:163, seconds
SecondsPerDay == 86400             \* calendar day of utcnow() / datetime('now')
SepT == 84                         \* 'T', the separator isoformat() writes
SepSpace == 32                     \* ' ', the separator datetime('now') writes

None == <<>>
Some(v) == <<v>>

(***************************************************************************)
(* Rationals.                                                              *)
(***************************************************************************)
RECURSIVE GCD(_, _)
GCD(a, b) == IF b = 0 THEN a ELSE GCD(b, a % b)

Frac(n, d) == LET g == GCD(n, d) IN IF n = 0 THEN <<0, 1>> ELSE <<n \div g, d \div g>>

\* f >= c, for a fraction f and a number of hundredths c
FracGeq(f, c) == f[1] >= c * f[2]

\* f > g, for two fractions
FracGt(f, g) == f[1] * g[2] > g[1] * f[2]


(***************************************************************************)
(* Timestamps.  datetime.utcnow().isoformat() writes                       *)
(* 'YYYY-MM-DDTHH:MM:SS...' and SQLite's datetime('now') writes            *)
(* 'YYYY-MM-DD HH:MM:SS'; the store compares the two as TEXT.  A timestamp *)
(* is <<day, separator, second of the day>>, compared as the strings are:  *)
(* field by field, left to right.                                          *)
(***************************************************************************)
isoformat(c) == <<c \div SecondsPerDay, SepT, c % SecondsPerDay>>

sqlite_now(c) == <<c \div SecondsPerDay, SepSpace, c % SecondsPerDay>>

TextLeq(a, b) ==
    \/ a[1] < b[1]
    \/ a[1] = b[1] /\ a[2] < b[2]
    \/ a[1] = b[1] /\ a[2] = b[2] /\ a[3] <= b[3]

(***************************************************************************)
(* Findings.  error is "absent" (the dict has no "error" key), "null"      *)
(* (the key is there and holds None) or "set" (it holds a string).         *)
(***************************************************************************)
Finding(p, c, e) == [probe |-> p, confidence |-> c, error |-> e]

(***************************************************************************)
(* input_data: the field bag a task is created with.  A text field is a    *)
(* sequence of characters (<<>> when the field is missing or empty), a     *)
(* list field is the number of its entries.                                *)
(***************************************************************************)
InputData(q, sp, fp, urls, cmd) ==
    [query |-> q, search_pattern |-> sp, file_paths |-> fp, check_urls |-> urls, command |-> cmd]

Query == <<"d", "e", "p", "l", "o", "y">>
CmdLs == <<"l", "s", " ", "-", "l", "a">>
CmdRm == <<"r", "m", " ", "-", "r", "f", " ", "/">>

\* What tasks are created with: a priority and a field bag.
Request(priority, input_data) == [priority |-> priority, input_data |-> input_data]

Requests ==
    { Request(0, InputData(<<>>, <<>>, 0, 0, <<>>)),
      Request(0, InputData(Query, <<>>, 0, 0, <<>>)),
      Request(1, InputData(<<>>, <<>>, 0, 1, <<>>)),
      Request(0, InputData(<<>>, <<>>, 0, 0, CmdRm)) }

\* probes.py determine_probes: the applicable probes, in the order it appends them
determine_probes(input_data) ==
    (IF input_data.query # <<>> THEN <<"atlas">> ELSE <<>>)
    \o (IF input_data.search_pattern # <<>> THEN <<"grep">> ELSE <<>>)
    \o (IF input_data.file_paths # 0 THEN <<"file_read">> ELSE <<>>)
    \o (IF input_data.check_urls # 0 THEN <<"api_check">> ELSE <<>>)
    \o (IF input_data.command # <<>> THEN <<"command">> ELSE <<>>)

(***************************************************************************)
(* The probes.  Each takes what its collaborator answered and returns the  *)
(* finding the code builds from it.                                        *)
(***************************************************************************)
Min(a, b) == IF a <= b THEN a ELSE b

\* probe_atlas: answer is [success, total] of atlas.search_atlas
AtlasAnswers == {[success |-> TRUE, total |-> 0], [success |-> TRUE, total |-> 5],
                 [success |-> FALSE, total |-> 0]}

probe_atlas(answer) ==
    IF answer.success
    THEN Finding("atlas",
                 IF answer.total > 0 THEN Min((answer.total * 100) \div 5, 100) ELSE 10,
                 "absent")
    ELSE Finding("atlas", 0, "set")

\* probe_api_check: urls entries supplied, healthy of the checked ones answered < 400
probe_api_check(urls, healthy) ==
    Finding("api_check", (healthy * 100) \div urls, "absent")

\* variant: the bands of the match count end one match early
probe_grep_exclusive(total_matches, failed) ==
    IF failed THEN Finding("grep", 0, "set")
    ELSE Finding("grep",
                 IF total_matches = 0 THEN 10
                 ELSE IF total_matches < 5 THEN 90
                 ELSE IF total_matches < 20 THEN 70
                 ELSE 50,
                 "absent")

\* probe_grep: total_matches counted by rg; "error" is a bad exit code or a timeout
probe_grep(total_matches, failed) ==
    IF failed THEN Finding("grep", 0, "set")
    ELSE Finding("grep",
                 IF total_matches = 0 THEN 10
                 ELSE IF total_matches <= 5 THEN 90
                 ELSE IF total_matches <= 20 THEN 70
                 ELSE 50,
                 "absent")

\* probes.py 125-132: the output of "rg -c" is one "path:count" line per file
\* with a match; count_lines holds the counts, in the order of the lines
RECURSIVE sum_counts(_)
sum_counts(count_lines) ==
    IF count_lines = <<>> THEN 0 ELSE Head(count_lines) + sum_counts(Tail(count_lines))

\* _fallback_grep, run when rg is not installed
fallback_grep(total_matches, failed) ==
    IF failed THEN Finding("grep", 0, "set")
    ELSE Finding("grep", IF total_matches > 0 THEN 50 ELSE 10, "absent")

\* probe_grep with its fallback: which tool is there, what it printed, whether it failed
pattern_search(rg_installed, count_lines, failed) ==
    IF rg_installed THEN probe_grep(sum_counts(count_lines), failed)
    ELSE fallback_grep(sum_counts(count_lines), failed)

\* probe_file_read: found of the requested paths exist
probe_file_read(requested, found) ==
    Finding("file_read", (found * 100) \div requested, "absent")

\* str.strip() and str.startswith() on sequences of characters
RECURSIVE lstrip(_)
lstrip(s) == IF s # <<>> /\ Head(s) = " " THEN lstrip(Tail(s)) ELSE s

RECURSIVE rstrip(_)
rstrip(s) == IF s # <<>> /\ s[Len(s)] = " " THEN rstrip(SubSeq(s, 1, Len(s) - 1)) ELSE s

strip(s) == rstrip(lstrip(s))

startswith(s, prefix) ==
    /\ Len(prefix) <= Len(s)
    /\ SubSeq(s, 1, Len(prefix)) = prefix

safe_prefixes ==
    { <<"l", "s">>,
      <<"c", "a", "t">>,
      <<"h", "e", "a", "d">>,
      <<"t", "a", "i", "l">>,
      <<"w", "c">>,
      <<"f", "i", "n", "d">>,
      <<"w", "h", "i", "c", "h">>,
      <<"t", "y", "p", "e">>,
      <<"g", "i", "t", " ", "s", "t", "a", "t", "u", "s">>,
      <<"g", "i", "t", " ", "l", "o", "g">>,
      <<"g", "i", "t", " ", "d", "i", "f", "f">>,
      <<"g", "i", "t", " ", "b", "r", "a", "n", "c", "h">>,
      <<"d", "o", "c", "k", "e", "r", " ", "p", "s">>,
      <<"d", "o", "c", "k", "e", "r", " ", "i", "m", "a", "g", "e", "s">>,
      <<"p", "i", "p", " ", "l", "i", "s", "t">>,
      <<"p", "i", "p", " ", "s", "h", "o", "w">>,
      <<"p", "y", "t", "h", "o", "n", " ", "-", "-", "v", "e", "r", "s", "i", "o", "n">>,
      <<"n", "o", "d", "e", " ", "-", "-", "v", "e", "r", "s", "i", "o", "n">>,
      <<"c", "u", "r", "l", " ", "-", "I">> }

\* s[i .. i + Len(sub) - 1] = sub for some i: Python's `sub in s`
contains(s, sub) ==
    \E i \in 1 .. Len(s) - Len(sub) + 1 : SubSeq(s, i, i + Len(sub) - 1) = sub

\* variant: a prefix found anywhere in the command lets it through
is_safe_anywhere(command) == \E prefix \in safe_prefixes : contains(strip(command), prefix)

is_safe(command) == \E prefix \in safe_prefixes : startswith(strip(command), prefix)

\* probes.py 414-419: create_subprocess_shell is reached once the check has passed
subprocess_created(command) == is_safe(command)

\* probe_command: run is what the subprocess did, [exit_code, stderr (empty or not), timeout]
\* (timeout stands for both except branches: the wait timed out or the call raised)
CommandRuns == [exit_code : {0, 1}, stderr : BOOLEAN, timeout : BOOLEAN]

probe_command(command, run) ==
    IF ~is_safe(command) THEN Finding("command", 0, "set")
    ELSE IF run.timeout THEN Finding("command", 0, "set")
    ELSE Finding("command",
                 IF run.exit_code = 0 THEN 80 ELSE 30,
                 IF run.stderr THEN "set" ELSE "null")

\* run_probes' except branch: a probe that raised
probe_raised(probe_type) == Finding(probe_type, 0, "set")

(***************************************************************************)
(* probes.py calculate_confidence: the weighted aggregate.  Weights are    *)
(* doubled (1 for a finding with an "error" key, 2 without) to stay in     *)
(* the integers.                                                           *)
(***************************************************************************)
FindingWeight2(finding) == IF finding.error # "absent" THEN 1 ELSE 2

RECURSIVE WeightedSum2(_)
WeightedSum2(findings) ==
    IF findings = <<>> THEN 0
    ELSE Head(findings).confidence * FindingWeight2(Head(findings)) + WeightedSum2(Tail(findings))

\* variant: every finding counts 0.5 in the total weight, error or not
TotalWeight2_all_half(findings) == Len(findings)

RECURSIVE TotalWeight2(_)
TotalWeight2(findings) ==
    IF findings = <<>> THEN 0
    ELSE FindingWeight2(Head(findings)) + TotalWeight2(Tail(findings))

\* variant: the confidence of the latest finding alone
calculate_confidence_latest(findings) ==
    IF findings = <<>> THEN Frac(0, 1)
    ELSE Frac(findings[Len(findings)].confidence, 1)

calculate_confidence(findings) ==
    IF findings = <<>> THEN Frac(0, 1)
    ELSE Frac(WeightedSum2(findings), TotalWeight2(findings))

(***************************************************************************)
(* State.                                                                  *)
(***************************************************************************)
VARIABLES
    tasks,          \* the background_tasks table: a sequence of rows, row i has id i
    clock,          \* the wall clock, in seconds
    pc,             \* where _run_loop is: "poll", "process", "escalate" (with start() and
                    \* stop() modelled: one position per coroutine created)
    batch,          \* the rows get_pending_background_tasks returned, not yet processed
    ready,          \* the rows get_tasks_ready_for_escalation returned, not yet escalated
    atlas_mock,     \* a test's patch of probe_atlas: [patched, returns]
    telegram,       \* per task, the messages handed to telegram.send_message
    dispatches,     \* per task, the calls made to service_router.dispatch
    last,           \* what the latest step did and met
    orchestrator,   \* the BackgroundOrchestrator object: [running, _task]
    awaiting        \* the stop() calls suspended at "await self._task": the awaited loops

vars == <<tasks, clock, pc, batch, ready, atlas_mock, telegram, dispatches, last,
          orchestrator, awaiting>>

(***************************************************************************)
(* The task store, penny/database.py.                                      *)
(* Of a row's columns, started_at and completed_at are written and never   *)
(* read, and are left out.  Ids stand for created_at: row i is the i-th    *)
(* row created, so created_at ascending is id ascending.                   *)
(***************************************************************************)
\* create_background_task's INSERT: the row, with the table's defaults
NewTask(id, priority, input_data) ==
    [id |-> id, status |-> "pending", priority |-> priority, input_data |-> input_data,
     findings |-> <<>>, confidence |-> Frac(0, 1), retry_count |-> 0,
     max_retries |-> DEFAULT_MAX_RETRIES, next_run_at |-> None, error_message |-> None]

\* update_task_status: findings, confidence and error_message are optional
update_task_status(store, id, status, findings, confidence, error_message) ==
    [store EXCEPT ![id] =
        [@ EXCEPT !.status = status,
                  !.findings = IF findings # None THEN findings[1] ELSE @,
                  !.confidence = IF confidence # None THEN confidence[1] ELSE @,
                  !.error_message = IF error_message # None THEN error_message[1] ELSE @]]

\* append_finding: append, and store the plain average of the findings' confidences
RECURSIVE SumConfidence(_)
SumConfidence(findings) ==
    IF findings = <<>> THEN 0 ELSE Head(findings).confidence + SumConfidence(Tail(findings))

\* variant: the new finding replaces the stored list
append_finding_overwrites(store, id, finding) ==
    LET findings == <<finding>>
        new_confidence == Frac(SumConfidence(findings), Len(findings))
    IN  update_task_status(store, id, store[id].status, Some(findings), Some(new_confidence),
                           None)

append_finding(store, id, finding) ==
    LET findings == Append(store[id].findings, finding)
        new_confidence == Frac(SumConfidence(findings), Len(findings))
    IN  update_task_status(store, id, store[id].status, Some(findings), Some(new_confidence),
                           None)

\* increment_task_retry: next_run_at is optional
increment_task_retry(store, id, next_run_at) ==
    IF next_run_at # None
    THEN [store EXCEPT ![id] = [@ EXCEPT !.retry_count = @ + 1,
                                         !.next_run_at = next_run_at[1],
                                         !.status = "pending"]]
    ELSE [store EXCEPT ![id] = [@ EXCEPT !.retry_count = @ + 1]]

\* ORDER BY priority DESC, created_at ASC
PendingOrder(a, b) ==
    \/ a.priority > b.priority
    \/ a.priority = b.priority /\ a.id < b.id

\* ORDER BY confidence DESC, priority DESC (then by rowid)
ReadyOrder(a, b) ==
    \/ FracGt(a.confidence, b.confidence)
    \/ a.confidence = b.confidence /\ a.priority > b.priority
    \/ a.confidence = b.confidence /\ a.priority = b.priority /\ a.id < b.id

Limit(rows, n) == SubSeq(rows, 1, Min(n, Len(rows)))

\* get_pending_background_tasks
\* variant: the WHERE clause without its status filter
IsPendingNow_any_status(row, now) ==
    row.next_run_at = None \/ TextLeq(row.next_run_at, sqlite_now(now))

IsPendingNow(row, now) ==
    /\ row.status = "pending"
    /\ (row.next_run_at = None \/ TextLeq(row.next_run_at, sqlite_now(now)))

get_pending_background_tasks(store, limit, now) ==
    LET Where(row) == IsPendingNow(row, now)
    IN  Limit(SortSeq(SelectSeq(store, Where), PendingOrder), limit)

\* get_tasks_ready_for_escalation
\* variant: the WHERE clause without its confidence filter
IsReady_any_confidence(row, confidence_threshold) == row.status = "pending"

IsReady(row, confidence_threshold) ==
    /\ row.status = "pending"
    /\ FracGeq(row.confidence, confidence_threshold)

get_tasks_ready_for_escalation(store, confidence_threshold) ==
    LET Where(row) == IsReady(row, confidence_threshold)
    IN  SortSeq(SelectSeq(store, Where), ReadyOrder)

(***************************************************************************)
(* run_probes, penny/orchestrator/probes.py: one finding per applicable    *)
(* probe, in selector order.  A patched probe_atlas returns the next value *)
(* of the patch, and raises once the patch has none left.                  *)
(***************************************************************************)
ScenarioConfidences == <<30, 55, 85>>

\* what a call of the probe can return
ProbeResults(probe_type, input_data, mock) ==
    CASE probe_type = "atlas" ->
            IF mock.patched
            THEN IF mock.returns # <<>>
                 THEN { Finding("atlas", Head(mock.returns), "absent") }
                 ELSE {}
            ELSE { probe_atlas(answer) : answer \in AtlasAnswers }
      [] probe_type = "grep" ->
            { probe_grep(m, FALSE) : m \in {0, 3, 12, 40} } \cup { probe_grep(0, TRUE) }
      [] probe_type = "file_read" ->
            { probe_file_read(input_data.file_paths, found) :
                found \in 0 .. Min(input_data.file_paths, 10) }
      [] probe_type = "api_check" ->
            { probe_api_check(input_data.check_urls, healthy) :
                healthy \in 0 .. Min(input_data.check_urls, 5) }
      [] probe_type = "command" ->
            { probe_command(input_data.command, run) : run \in CommandRuns }

\* what a call of the probe can do: return, or raise (the patch raises once it
\* has nothing left to return, and never before)
ProbeCalls(probe_type, input_data, mock) ==
    { [raised |-> FALSE, returned |-> Some(result)] :
        result \in ProbeResults(probe_type, input_data, mock) }
    \cup (IF probe_type = "atlas" /\ mock.patched /\ mock.returns # <<>> THEN {}
          ELSE { [raised |-> TRUE, returned |-> None] })

RECURSIVE CallsOf(_, _, _)
CallsOf(probe_types, input_data, mock) ==
    IF probe_types = <<>> THEN {<<>>}
    ELSE { <<call>> \o rest :
             call \in ProbeCalls(Head(probe_types), input_data, mock),
             rest \in CallsOf(Tail(probe_types), input_data, mock) }

\* variant: without the try, the first probe that raises ends the for loop
RECURSIVE run_probes_unguarded(_, _)
run_probes_unguarded(probe_types, calls) ==
    IF probe_types = <<>> \/ Head(calls).raised THEN <<>>
    ELSE (IF Head(calls).returned # None THEN Head(calls).returned ELSE <<>>)
         \o run_probes_unguarded(Tail(probe_types), Tail(calls))

\* probes.py 35-59, the for loop: calls[i] is what the call of the i-th probe did
RECURSIVE run_probes_over(_, _)
run_probes_over(probe_types, calls) ==
    IF probe_types = <<>> THEN <<>>
    ELSE (IF Head(calls).raised THEN <<probe_raised(Head(probe_types))>>
          ELSE IF Head(calls).returned # None THEN Head(calls).returned
          ELSE <<>>)
         \o run_probes_over(Tail(probe_types), Tail(calls))

run_probes(input_data, mock) ==
    { run_probes_over(determine_probes(input_data), calls) :
        calls \in CallsOf(determine_probes(input_data), input_data, mock) }

\* what a pass leaves of the patch
MockAfter(input_data, mock) ==
    IF mock.patched /\ input_data.query # <<>> /\ mock.returns # <<>>
    THEN [mock EXCEPT !.returns = Tail(@)]
    ELSE mock

(***************************************************************************)
(* BackgroundOrchestrator._process_task, penny/orchestrator/loop.py.       *)
(* exc says where the pass raised: NoExc (nowhere), or after exc findings   *)
(* were appended (0 .. number of results), or at the closing status update *)
(* (number of results + 1).                                                *)
(***************************************************************************)
NoExc == 0 - 1
ExcText == "OperationalError"

RECURSIVE AppendFindings(_, _, _)
AppendFindings(store, id, results) ==
    IF results = <<>> THEN store
    ELSE AppendFindings(append_finding(store, id, Head(results)), id, Tail(results))

\* loop.py 102-105
all_failed(probe_results) ==
    IF probe_results # <<>>
    THEN \A i \in 1 .. Len(probe_results) :
            probe_results[i].error = "set" \/ probe_results[i].confidence = 0
    ELSE TRUE

\* variant: the first exception already marks the task failed
process_task_except_fails_at_once(store, id, now) ==
    update_task_status(increment_task_retry(store, id, None), id, "failed", None, None,
                       Some(<<ExcText>>))

\* loop.py 148-164, the except branch
process_task_except(store, id, now) ==
    LET updated == increment_task_retry(store, id, None)
    IN  IF updated[id].retry_count >= updated[id].max_retries
        THEN update_task_status(updated, id, "failed", None, None, Some(<<ExcText>>))
        ELSE increment_task_retry(updated, id, Some(isoformat(now + RETRY_DELAY)))

\* variant: a task out of retries is marked failed
process_task_all_failed_fails(store, id, confidence) ==
    LET updated == increment_task_retry(store, id, None)
    IN  IF updated[id].retry_count >= updated[id].max_retries
        THEN update_task_status(updated, id, "failed", None, Some(confidence), None)
        ELSE update_task_status(updated, id, "pending", None, Some(confidence), None)

\* loop.py 116-138, the all-failed branch of the status decision
process_task_all_failed(store, id, confidence) ==
    LET updated == increment_task_retry(store, id, None)
    IN  IF updated[id].retry_count >= updated[id].max_retries
        THEN update_task_status(updated, id, "pending", None, Some(confidence), None)
        ELSE update_task_status(updated, id, "pending", None, Some(confidence), None)

\* loop.py 74-164 up to the closing update of each branch
process_task(store, id, probe_results, exc, now) ==
    LET n == Len(probe_results)
        running == update_task_status(store, id, "running", None, None, None)
        appended == AppendFindings(running, id,
                                   SubSeq(probe_results, 1, IF exc \in 0 .. n THEN exc ELSE n))
        confidence == calculate_confidence(appended[id].findings)
    IN  IF exc \in 0 .. n THEN process_task_except(appended, id, now)
        ELSE IF FracGeq(confidence, HIGH_CONFIDENCE_THRESHOLD)
        THEN IF exc = n + 1 THEN process_task_except(appended, id, now)
             ELSE update_task_status(appended, id, "pending", None, Some(confidence), None)
        ELSE IF all_failed(probe_results)
        THEN IF exc = n + 1
             THEN process_task_except(increment_task_retry(appended, id, None), id, now)
             ELSE process_task_all_failed(appended, id, confidence)
        ELSE IF exc = n + 1 THEN process_task_except(appended, id, now)
             ELSE update_task_status(appended, id, "pending", None, Some(confidence), None)

(***************************************************************************)
(* The escalation engine, penny/orchestrator/escalation.py.  Each function *)
(* returns [store, sent, calls, result, raised]: the store it leaves, the  *)
(* messages it handed to telegram.send_message, the calls it made to       *)
(* service_router.dispatch, the "action" of the dict it returns, and       *)
(* whether it raised instead of returning.                                 *)
(* env is what the call meets: exc ("none"; "import": the module cannot be *)
(* imported; "pre": an exception before the first call to a collaborator;  *)
(* "db": the first update_task_status raises), quick and full (the answers *)
(* of the sonnet and opus calls) and delivered (send_message's answer).    *)
(***************************************************************************)
BackendResults ==
    { [success |-> TRUE, error |-> None],
      [success |-> FALSE, error |-> Some("Timeout after 300s")] }

Message(kind, delivered) == [kind |-> kind, delivered |-> delivered]

Call(model, result) == [model |-> model, success |-> result.success, error |-> result.error]

Outcome(store, sent, calls, result, raised) ==
    [store |-> store, sent |-> sent, calls |-> calls, result |-> result, raised |-> raised]

\* variant: the task is completed only when the summary was delivered
deliver_findings_needs_delivery(store, task, env) ==
    IF env.exc = "pre" THEN Outcome(store, <<>>, <<>>, "raised", TRUE)
    ELSE LET sent == <<Message("Task Complete", env.delivered)>>
         IN  IF env.exc = "db" THEN Outcome(store, sent, <<>>, "raised", TRUE)
             ELSE IF env.delivered
             THEN Outcome(update_task_status(store, task.id, "completed", None, None, None),
                          sent, <<>>, "delivered", FALSE)
             ELSE Outcome(store, sent, <<>>, "delivered", FALSE)

\* escalation.py 56-85
deliver_findings(store, task, env) ==
    IF env.exc = "pre" THEN Outcome(store, <<>>, <<>>, "raised", TRUE)
    ELSE LET sent == <<Message("Task Complete", env.delivered)>>
         IN  IF env.exc = "db" THEN Outcome(store, sent, <<>>, "raised", TRUE)
             ELSE Outcome(update_task_status(store, task.id, "completed", None, None, None),
                          sent, <<>>, "delivered", FALSE)

\* variant: a failed opus call marks the task failed without recording why
full_escalation_drops_error(store, task, env) ==
    IF env.exc = "pre" THEN Outcome(store, <<>>, <<>>, "raised", TRUE)
    ELSE LET calls == <<Call("opus", env.full)>>
         IN  IF env.full.success
             THEN LET sent == <<Message("Full Analysis", env.delivered)>>
                  IN  IF env.exc = "db" THEN Outcome(store, sent, calls, "raised", TRUE)
                      ELSE Outcome(update_task_status(store, task.id, "completed",
                                                      None, None, None),
                                   sent, calls, "full_escalation", FALSE)
             ELSE IF env.exc = "db" THEN Outcome(store, <<>>, calls, "raised", TRUE)
                  ELSE Outcome(update_task_status(store, task.id, "failed", None, None, None),
                               <<Message("Task Failed", env.delivered)>>, calls,
                               "full_escalation_failed", FALSE)

\* escalation.py 139-222
full_escalation(store, task, env) ==
    IF env.exc = "pre" THEN Outcome(store, <<>>, <<>>, "raised", TRUE)
    ELSE LET calls == <<Call("opus", env.full)>>
         IN  IF env.full.success
             THEN LET sent == <<Message("Full Analysis", env.delivered)>>
                  IN  IF env.exc = "db" THEN Outcome(store, sent, calls, "raised", TRUE)
                      ELSE Outcome(update_task_status(store, task.id, "completed",
                                                      None, None, None),
                                   sent, calls, "full_escalation", FALSE)
             ELSE LET error_msg == IF env.full.error # None THEN env.full.error[1]
                                   ELSE "Unknown error"
                  IN  IF env.exc = "db" THEN Outcome(store, <<>>, calls, "raised", TRUE)
                      ELSE Outcome(update_task_status(store, task.id, "failed", None, None,
                                        Some(<<"Full escalation failed: ", error_msg>>)),
                                   <<Message("Task Failed", env.delivered)>>, calls,
                                   "full_escalation_failed", FALSE)

\* variant: a failed sonnet call fails the task, the opus call is not tried
quick_escalation_gives_up(store, task, env) ==
    IF env.exc = "pre" THEN Outcome(store, <<>>, <<>>, "raised", TRUE)
    ELSE LET calls == <<Call("sonnet", env.quick)>>
         IN  IF env.quick.success
             THEN LET sent == <<Message("Quick Analysis", env.delivered)>>
                  IN  IF env.exc = "db" THEN Outcome(store, sent, calls, "raised", TRUE)
                      ELSE Outcome(update_task_status(store, task.id, "completed",
                                                      None, None, None),
                                   sent, calls, "quick_escalation", FALSE)
             ELSE IF env.exc = "db" THEN Outcome(store, <<>>, calls, "raised", TRUE)
                  ELSE Outcome(update_task_status(store, task.id, "failed", None, None,
                                    Some(<<"Quick escalation failed: ", "Timeout after 300s">>)),
                               <<Message("Task Failed", env.delivered)>>, calls,
                               "quick_escalation_failed", FALSE)

\* escalation.py 88-136
quick_escalation(store, task, env) ==
    IF env.exc = "pre" THEN Outcome(store, <<>>, <<>>, "raised", TRUE)
    ELSE LET calls == <<Call("sonnet", env.quick)>>
         IN  IF env.quick.success
             THEN LET sent == <<Message("Quick Analysis", env.delivered)>>
                  IN  IF env.exc = "db" THEN Outcome(store, sent, calls, "raised", TRUE)
                      ELSE Outcome(update_task_status(store, task.id, "completed",
                                                      None, None, None),
                                   sent, calls, "quick_escalation", FALSE)
             ELSE LET full == full_escalation(store, task, env)
                  IN  [full EXCEPT !.calls = calls \o @]

\* variant: without the High tier
evaluate_and_escalate_no_high(store, task, env) ==
    IF FracGeq(task.confidence, MEDIUM_CONFIDENCE) THEN quick_escalation(store, task, env)
    ELSE full_escalation(store, task, env)

\* escalation.py 26-53
evaluate_and_escalate(store, task, env) ==
    IF FracGeq(task.confidence, HIGH_CONFIDENCE) THEN deliver_findings(store, task, env)
    ELSE IF FracGeq(task.confidence, MEDIUM_CONFIDENCE) THEN quick_escalation(store, task, env)
    ELSE full_escalation(store, task, env)

\* BackgroundOrchestrator._escalate_task, loop.py 166-189
escalate_task(store, task, env) ==
    IF env.exc = "import"
    THEN Outcome(update_task_status(store, task.id, "completed", None, None, None),
                 <<>>, <<>>, "import_error", FALSE)
    ELSE LET out == evaluate_and_escalate(store, task, env)
         IN  IF out.raised
             THEN [out EXCEPT !.store = update_task_status(out.store, task.id, "failed", None, None,
                                            Some(<<"Escalation error: ", ExcText>>))]
             ELSE out

\* what a call can meet, for a task of the given stored confidence
EscalationEnvs(confidence) ==
    { env \in [exc : {"none", "import", "pre", "db"}, quick : BackendResults,
               full : BackendResults, delivered : BOOLEAN] :
        \* answers nobody asks for are left at their first value
        /\ (env.exc \in {"import", "pre"} => env.delivered /\ env.quick.success /\ env.full.success)
        /\ (FracGeq(confidence, HIGH_CONFIDENCE) => env.quick.success /\ env.full.success)
        /\ (~FracGeq(confidence, MEDIUM_CONFIDENCE) => env.quick.success)
        /\ (~FracGeq(confidence, HIGH_CONFIDENCE) /\ env.quick.success
                /\ FracGeq(confidence, MEDIUM_CONFIDENCE) => env.full.success) }

(***************************************************************************)
(* The loop, BackgroundOrchestrator._run_loop, and the callers around it.  *)
(***************************************************************************)
\* the clock a run starts at: midnight, or one poll before the next midnight
StartTimes == {0, SecondsPerDay - POLL_INTERVAL}

Elapsed(c) == IF c >= SecondsPerDay - POLL_INTERVAL THEN c - (SecondsPerDay - POLL_INTERVAL) ELSE c

Step(op, id, raised, failed_all, result) ==
    [op |-> op, id |-> id, raised |-> raised, all_failed |-> failed_all, result |-> result]

\* the orchestrator after start(): running, and _task the one loop pc follows
Started == [running |-> TRUE, _task |-> Some(1)]

Init ==
    /\ tasks = <<>>
    /\ clock \in StartTimes
    /\ pc = "poll"
    /\ batch = <<>>
    /\ ready = <<>>
    /\ atlas_mock \in { [patched |-> FALSE, returns |-> <<>>],
                        [patched |-> TRUE, returns |-> ScenarioConfidences] }
    /\ telegram = <<>>
    /\ dispatches = <<>>
    /\ last = Step("init", 0, FALSE, FALSE, "")
    /\ orchestrator = Started
    /\ awaiting = <<>>

\* database.create_background_task, called by router.queue_background_task
CreateTask ==
    /\ Len(tasks) < MaxTasks
    /\ \E request \in Requests :
         tasks' = Append(tasks, NewTask(Len(tasks) + 1, request.priority, request.input_data))
    /\ telegram' = Append(telegram, <<>>)
    /\ dispatches' = Append(dispatches, <<>>)
    /\ last' = Step("create", Len(tasks) + 1, FALSE, FALSE, "")
    /\ UNCHANGED <<clock, pc, batch, ready, atlas_mock, orchestrator, awaiting>>

\* loop.py 57
Poll ==
    /\ pc = "poll"
    /\ batch' = get_pending_background_tasks(tasks, BATCH_LIMIT, clock)
    /\ pc' = "process"
    /\ last' = Step("poll", 0, FALSE, FALSE, "")
    /\ UNCHANGED <<tasks, clock, ready, atlas_mock, telegram, dispatches, orchestrator, awaiting>>

\* loop.py 59-60, one turn of the for loop
ProcessTask ==
    /\ pc = "process"
    /\ batch # <<>>
    /\ LET task == Head(batch)
       IN  /\ tasks[task.id].retry_count <= MaxRetryCount
           /\ \E probe_results \in run_probes(task.input_data, atlas_mock) :
                /\ Len(tasks[task.id].findings) + Len(probe_results) <= MaxFindings
                /\ \E exc \in NoExc .. Len(probe_results) + 1 :
                     /\ tasks' = process_task(tasks, task.id, probe_results, exc, clock)
                     /\ last' = Step("process", task.id, exc # NoExc,
                                     all_failed(probe_results), "")
           /\ atlas_mock' = MockAfter(task.input_data, atlas_mock)
    /\ batch' = Tail(batch)
    /\ UNCHANGED <<clock, pc, ready, telegram, dispatches, orchestrator, awaiting>>

\* loop.py 63-65
FetchReady ==
    /\ pc = "process"
    /\ batch = <<>>
    /\ ready' = get_tasks_ready_for_escalation(tasks, HIGH_CONFIDENCE_THRESHOLD)
    /\ pc' = "escalate"
    /\ last' = Step("fetch_ready", 0, FALSE, FALSE, "")
    /\ UNCHANGED <<tasks, clock, batch, atlas_mock, telegram, dispatches, orchestrator, awaiting>>

\* the effect of one _escalate_task call on the store and on the collaborators
Escalated(task, env) ==
    LET out == escalate_task(tasks, task, env)
    IN  /\ tasks' = out.store
        /\ telegram' = [telegram EXCEPT ![task.id] = @ \o out.sent]
        /\ dispatches' = [dispatches EXCEPT ![task.id] = @ \o out.calls]
        /\ last' = Step("escalate", task.id, out.raised, FALSE, out.result)

\* loop.py 66-67, one turn of the for loop
EscalateTask ==
    /\ pc = "escalate"
    /\ ready # <<>>
    /\ \E env \in EscalationEnvs(Head(ready).confidence) : Escalated(Head(ready), env)
    /\ ready' = Tail(ready)
    /\ UNCHANGED <<clock, pc, batch, atlas_mock, orchestrator, awaiting>>

\* loop.py 72
Sleep ==
    /\ pc = "escalate"
    /\ ready = <<>>
    /\ Elapsed(clock) < MaxTicks * POLL_INTERVAL
    /\ clock' = clock + POLL_INTERVAL
    /\ pc' = "poll"
    /\ last' = Step("sleep", 0, FALSE, FALSE, "")
    /\ UNCHANGED <<tasks, batch, ready, atlas_mock, telegram, dispatches, orchestrator, awaiting>>

Next ==
    \/ CreateTask
    \/ Poll
    \/ ProcessTask
    \/ FetchReady
    \/ EscalateTask
    \/ Sleep

Spec == Init /\ [][Next]_vars

(***************************************************************************)
(* The escalation engine on its own: besides the loop, a caller hands a    *)
(* pending task, whatever its confidence, to _escalate_task between two    *)
(* iterations of the loop, so that the Medium and Low tiers run on tasks   *)
(* the probe passes have left.                                             *)
(***************************************************************************)
EscalateAnyTask ==
    /\ pc = "poll"
    /\ \E id \in 1 .. Len(tasks) :
         /\ tasks[id].status = "pending"
         /\ \E env \in EscalationEnvs(tasks[id].confidence) : Escalated(tasks[id], env)
    /\ UNCHANGED <<clock, pc, batch, ready, atlas_mock, orchestrator, awaiting>>

EngineNext ==
    \/ Next /\ Len(tasks') <= MaxEngineTasks
    \/ EscalateAnyTask

EngineSpec == Init /\ [][EngineNext]_vars

(***************************************************************************)
(* Shorthands of the claims.                                               *)
(***************************************************************************)
Ids == 1 .. Len(tasks)

Terminal(row) == row.status \in {"completed", "failed"}

Confidences(findings) == [i \in 1 .. Len(findings) |-> findings[i].confidence]

NoErrors(findings) == \A i \in 1 .. Len(findings) : findings[i].error = "absent"

AllZero(findings) == \A i \in 1 .. Len(findings) : findings[i].confidence = 0

Kinds(messages) == [i \in 1 .. Len(messages) |-> messages[i].kind]

\* the loop is between two iterations
BetweenIterations == pc = "poll"

(***************************************************************************)
(* C1.  A task that is pending or running has retry_count <= max_retries,  *)
(* after any sequence of probe passes.                                     *)
(***************************************************************************)
C1_RetryWithinBudget ==
    \A i \in Ids :
        tasks[i].status \in {"pending", "running"} => tasks[i].retry_count <= tasks[i].max_retries

(***************************************************************************)
(* C2.  A task with one applicable probe, whose every pass failed, has by  *)
(* the end of the iteration in which its max_retries-th failed pass ran    *)
(* been handed to the Low tier (an opus call) and is completed or failed:  *)
(* it is not left pending.  The loop hands tasks over in every iteration,  *)
(* right after the probe passes, so a task still pending when the loop     *)
(* goes to sleep has not been handed over.                                 *)
(***************************************************************************)
C2_ExhaustedTaskEscalated ==
    BetweenIterations =>
        \A i \in Ids :
            ( /\ Len(determine_probes(tasks[i].input_data)) = 1
              /\ Len(tasks[i].findings) >= tasks[i].max_retries
              /\ AllZero(tasks[i].findings)
              /\ tasks[i].retry_count >= tasks[i].max_retries
              /\ tasks[i].next_run_at = None
              /\ tasks[i].error_message # <<ExcText>> )
            => /\ Terminal(tasks[i])
               /\ \E k \in 1 .. Len(dispatches[i]) : dispatches[i][k].model = "opus"

(***************************************************************************)
(* C3.  A pass in which every probe failed, and which raised nothing,      *)
(* never leaves the task failed: once retry_count has reached max_retries  *)
(* the task is pending and its confidence is the aggregate of its          *)
(* findings.                                                               *)
(***************************************************************************)
C3_AllFailedPassRan ==
    /\ last.op = "process"
    /\ ~last.raised
    /\ last.all_failed

C3_AllFailedStaysPending ==
    C3_AllFailedPassRan =>
        /\ tasks[last.id].status # "failed"
        /\ tasks[last.id].retry_count >= tasks[last.id].max_retries
           => /\ tasks[last.id].status = "pending"
              /\ tasks[last.id].confidence = calculate_confidence(tasks[last.id].findings)

C3_Witness ==
    /\ C3_AllFailedPassRan
    /\ tasks[last.id].retry_count >= tasks[last.id].max_retries
    /\ tasks[last.id].findings # <<>>

(***************************************************************************)
(* C4.  The scenario task: input {query}, the knowledge-base probe         *)
(* returning 0.3, 0.55 and 0.85 in three successive iterations, no pass    *)
(* failing.  As stated: pending after iterations 1 and 2, completed by the *)
(* High tier (one completion message, no reasoning call) after 3.          *)
(***************************************************************************)
C4_ScenarioTask(i, n) ==
    /\ BetweenIterations
    /\ determine_probes(tasks[i].input_data) = <<"atlas">>
    /\ Confidences(tasks[i].findings) = SubSeq(ScenarioConfidences, 1, n)
    /\ NoErrors(tasks[i].findings)
    /\ tasks[i].retry_count = 0

C4_ScenarioDelivered ==
    \A i \in Ids :
        /\ \A n \in 1 .. 2 : C4_ScenarioTask(i, n) => tasks[i].status = "pending"
        /\ C4_ScenarioTask(i, 3)
           => /\ tasks[i].status = "completed"
              /\ Kinds(telegram[i]) = <<"Task Complete">>
              /\ dispatches[i] = <<>>

(***************************************************************************)
(* C4, as the code has it.  The scenario task is pending after each of the *)
(* three iterations: its confidence after the third is the aggregate       *)
(* (0.3 + 0.55 + 0.85) / 3 < 0.8, so it is not handed to the engine, and   *)
(* nothing has been sent and no reasoning call made.                       *)
(***************************************************************************)
C4_ScenarioStaysPending ==
    \A i \in Ids :
        \A n \in 1 .. 3 :
            C4_ScenarioTask(i, n)
            => /\ tasks[i].status = "pending"
               /\ tasks[i].confidence = calculate_confidence(tasks[i].findings)
               /\ n = 3 => tasks[i].confidence = <<170, 3>>
               /\ ~FracGeq(tasks[i].confidence, HIGH_CONFIDENCE_THRESHOLD)
               /\ telegram[i] = <<>>
               /\ dispatches[i] = <<>>

C4_Witness == \E i \in Ids : C4_ScenarioTask(i, 3)

(***************************************************************************)
(* C5.  completed and failed are absorbing: no step of the loop changes    *)
(* any field of a task that is completed or failed.                        *)
(***************************************************************************)
C5_TerminalAbsorbing ==
    [][\A i \in Ids : Terminal(tasks[i]) => tasks'[i] = tasks[i]]_vars

\* a pass or an escalation of another task has run while this one was terminal
C5_Witness ==
    \E i \in Ids :
        /\ Terminal(tasks[i])
        /\ last.op \in {"process", "escalate"}
        /\ last.id # i

(***************************************************************************)
(* How a task came to be failed, read off the store and the collaborators. *)
(***************************************************************************)
\* loop.py 153-159: the except branch of a pass, out of retries
FailedByRetryExhaustion(i) ==
    /\ tasks[i].error_message = <<ExcText>>
    /\ tasks[i].retry_count >= tasks[i].max_retries

\* escalation.py 205-222: the opus call was the last call made and it failed
LowTierFailed(i) ==
    /\ dispatches[i] # <<>>
    /\ dispatches[i][Len(dispatches[i])].model = "opus"
    /\ ~dispatches[i][Len(dispatches[i])].success

FailedByLowTier(i) ==
    /\ LowTierFailed(i)
    /\ tasks[i].error_message # None
    /\ tasks[i].error_message[1] = "Full escalation failed: "

\* loop.py 183-189: an exception escaped evaluate_and_escalate
FailedByEscalationError(i) ==
    tasks[i].error_message = <<"Escalation error: ", ExcText>>

(***************************************************************************)
(* C6.  As stated: a task is failed only by retry exhaustion on the        *)
(* exception path of a pass, or by a failed Low-tier reasoning call.       *)
(***************************************************************************)
C6_OnlyTwoCauses ==
    \A i \in Ids :
        tasks[i].status = "failed" => FailedByRetryExhaustion(i) \/ FailedByLowTier(i)

(***************************************************************************)
(* C6, as the code has it.  A task is failed only by retry exhaustion on   *)
(* the exception path of a pass, by a failed Low-tier reasoning call, or   *)
(* by an exception that escaped the escalation engine; and a task has an   *)
(* error message only if it is failed.                                     *)
(***************************************************************************)
C6_ThreeCauses ==
    \A i \in Ids :
        /\ tasks[i].status = "failed"
           => \/ FailedByRetryExhaustion(i)
              \/ FailedByLowTier(i)
              \/ FailedByEscalationError(i)
        /\ tasks[i].error_message # None => tasks[i].status = "failed"

\* the loop handed over a task of confidence >= 0.8 and the High tier raised
C6_Witness ==
    /\ \E i \in Ids : tasks[i].status = "failed" /\ FailedByEscalationError(i)
    /\ last.op = "escalate"
    /\ last.raised
    /\ FracGeq(tasks[last.id].confidence, HIGH_CONFIDENCE_THRESHOLD)

(***************************************************************************)
(* C7.  A task of confidence >= 0.8 never has a reasoning call made for    *)
(* it, and when evaluate_and_escalate is called on it and returns, one     *)
(* completion summary has gone to the notifier and the task is completed.  *)
(***************************************************************************)
C7_HighTierReturned ==
    /\ last.op = "escalate"
    /\ last.result # "import_error"
    /\ ~last.raised
    /\ FracGeq(tasks[last.id].confidence, HIGH_CONFIDENCE)

C7_HighTierDelivers ==
    /\ \A i \in Ids : FracGeq(tasks[i].confidence, HIGH_CONFIDENCE) => dispatches[i] = <<>>
    /\ C7_HighTierReturned
       => /\ tasks[last.id].status = "completed"
          /\ Kinds(telegram[last.id]) = <<"Task Complete">>

C7_Witness ==
    /\ C7_HighTierReturned
    /\ ~telegram[last.id][1].delivered

(***************************************************************************)
(* C8.  A task of confidence in [0.6, 0.8) whose sonnet call failed is not *)
(* failed on that account: unless an exception escaped the engine, the     *)
(* opus call was made next, and the task is failed if that call failed     *)
(* too and completed if it succeeded.                                      *)
(***************************************************************************)
C8_QuickFailed(i) ==
    /\ dispatches[i] # <<>>
    /\ dispatches[i][1].model = "sonnet"
    /\ ~dispatches[i][1].success

C8_QuickFailureFallsThrough ==
    \A i \in Ids :
        C8_QuickFailed(i)
        => /\ FracGeq(tasks[i].confidence, MEDIUM_CONFIDENCE)
           /\ ~FracGeq(tasks[i].confidence, HIGH_CONFIDENCE)
           /\ ~FailedByEscalationError(i)
              => /\ Len(dispatches[i]) = 2
                 /\ dispatches[i][2].model = "opus"
                 /\ dispatches[i][2].success => tasks[i].status = "completed"
                 /\ ~dispatches[i][2].success => tasks[i].status = "failed"

C8_Witness ==
    \E i \in Ids :
        /\ C8_QuickFailed(i)
        /\ Len(dispatches[i]) = 2
        /\ dispatches[i][2].success
        /\ tasks[i].status = "completed"

(***************************************************************************)
(* C9.  When the Low-tier call has failed (and no exception escaped the    *)
(* engine) the task is failed, its error_message is set and carries the    *)
(* error the backend reported, and this is so once the failure             *)
(* notification has been attempted, delivered or not.                      *)
(***************************************************************************)
C9_LowFailureMarksFailed ==
    \A i \in Ids :
        LowTierFailed(i) /\ ~FailedByEscalationError(i)
        => /\ tasks[i].status = "failed"
           /\ tasks[i].error_message # None
           /\ tasks[i].error_message =
                  <<"Full escalation failed: ", dispatches[i][Len(dispatches[i])].error[1]>>
           /\ Kinds(telegram[i]) = <<"Task Failed">>

\* the notification was attempted and not delivered
C9_Witness ==
    \E i \in Ids :
        /\ LowTierFailed(i)
        /\ ~FailedByEscalationError(i)
        /\ telegram[i] # <<>>
        /\ ~telegram[i][1].delivered

(***************************************************************************)
(* C10.  Every failed task, whatever failed it, has had exactly one        *)
(* notification sent about it.                                             *)
(***************************************************************************)
C10_FailedNotifiedOnce ==
    \A i \in Ids : tasks[i].status = "failed" => Len(telegram[i]) = 1

(***************************************************************************)
(* C11.  The answer of telegram.send_message never affects task state: in  *)
(* every reachable state, for every pending task and everything the        *)
(* collaborators may answer, the escalation in which the message is        *)
(* delivered and the one in which it is not leave the same store (status,  *)
(* confidence, retry_count, error_message and every other field of every   *)
(* task), make the same reasoning calls and raise alike.                   *)
(***************************************************************************)
C11_NotificationIndependent ==
    \A i \in Ids :
        tasks[i].status = "pending" =>
            \A env \in EscalationEnvs(tasks[i].confidence) :
                LET sent == escalate_task(tasks, tasks[i], [env EXCEPT !.delivered = TRUE])
                    lost == escalate_task(tasks, tasks[i], [env EXCEPT !.delivered = FALSE])
                IN  /\ sent.store = lost.store
                    /\ sent.calls = lost.calls
                    /\ sent.raised = lost.raised
                    /\ Kinds(sent.sent) = Kinds(lost.sent)

\* an escalation whose message was not delivered has run and completed the task
C11_Witness ==
    /\ last.op = "escalate"
    /\ ~last.raised
    /\ telegram[last.id] # <<>>
    /\ ~telegram[last.id][1].delivered
    /\ tasks[last.id].status = "completed"

(***************************************************************************)
(* C12.  After a pass in which every probe failed, which raised nothing    *)
(* and left retry_count below max_retries, the task is pending and its     *)
(* next_run_at is the time of the pass plus 60 seconds.                    *)
(***************************************************************************)
C12_AllFailedBacksOff ==
    ( /\ C3_AllFailedPassRan
      /\ ~FracGeq(tasks[last.id].confidence, HIGH_CONFIDENCE_THRESHOLD)
      /\ tasks[last.id].retry_count < tasks[last.id].max_retries )
    => /\ tasks[last.id].status = "pending"
       /\ tasks[last.id].next_run_at = isoformat(clock + RETRY_DELAY)

(***************************************************************************)
(* C13.  A pass that raised (and in which not every probe failed, so that  *)
(* the all-failed branch did not count it too) increments retry_count by   *)
(* exactly one; the task is then pending with next_run_at 60 seconds after *)
(* the pass while retry_count < max_retries, and failed with the exception *)
(* text as error_message once retry_count has reached max_retries.         *)
(***************************************************************************)
C13_ExceptionCountsOnce ==
    [][ (last'.op = "process" /\ last'.raised /\ ~last'.all_failed)
        => LET before == tasks[last'.id]
               after == tasks'[last'.id]
           IN  /\ after.retry_count = before.retry_count + 1
               /\ IF after.retry_count < after.max_retries
                  THEN /\ after.status = "pending"
                       /\ after.next_run_at = isoformat(clock + RETRY_DELAY)
                  ELSE /\ after.status = "failed"
                       /\ after.error_message = <<ExcText>> ]_vars

(***************************************************************************)
(* C14.  A pass that raised nothing and whose only finding is the          *)
(* allow-list rejection of the task's command leaves retry_count as it     *)
(* was.                                                                    *)
(***************************************************************************)
C14_RejectionKeepsRetryCount ==
    [][ ( /\ last'.op = "process"
          /\ ~last'.raised
          /\ determine_probes(tasks[last'.id].input_data) = <<"command">>
          /\ ~is_safe(tasks[last'.id].input_data.command) )
        => tasks'[last'.id].retry_count = tasks[last'.id].retry_count ]_vars

(***************************************************************************)
(* probe_command on its own: a task is created with a command and the      *)
(* probe is run on its input once, the finding being stored on the task.   *)
(***************************************************************************)
MaxCommandLen == 4   \* length of the commands spelled over CommandLetters

CommandLetters == {" ", "l", "s", "x"}

RECURSIVE Words(_)
Words(n) ==
    IF n = 0 THEN {<<>>}
    ELSE LET shorter == Words(n - 1)
         IN  shorter \cup { Append(w, c) : w \in { v \in shorter : Len(v) = n - 1 },
                                            c \in CommandLetters }

Commands ==
    (Words(MaxCommandLen) \ {<<>>})
    \cup { CmdLs, CmdRm,
           <<"g", "i", "t", " ", "s", "t", "a", "t", "u", "s">>,
           <<"g", "i", "t", " ", "p", "u", "s", "h">>,
           <<" ", "w", "c", " ", "-", "l">>,
           <<"c", "u", "r", "l", " ", "-", "I">>,
           <<"c", "u", "r", "l", " ", "-", "X">>,
           <<"e", "c", "h", "o", " ", "l", "s">> }

ProbeInit ==
    /\ \E command \in Commands :
         tasks = <<NewTask(1, 0, InputData(<<>>, <<>>, 0, 0, command))>>
    /\ clock = 0
    /\ pc = "probe"
    /\ batch = <<>>
    /\ ready = <<>>
    /\ atlas_mock = [patched |-> FALSE, returns |-> <<>>]
    /\ telegram = <<<<>>>>
    /\ dispatches = <<<<>>>>
    /\ last = Step("init", 0, FALSE, FALSE, "")
    /\ orchestrator = Started
    /\ awaiting = <<>>

\* probes.py 384-455, called on the task's input
ProbeCommand ==
    /\ pc = "probe"
    /\ LET command == tasks[1].input_data.command
       IN  /\ \E run \in CommandRuns :
                tasks' = append_finding(tasks, 1, probe_command(command, run))
           /\ last' = Step("probe_command", 1, FALSE, FALSE,
                           IF subprocess_created(command) THEN "subprocess" ELSE "")
    /\ pc' = "done"
    /\ UNCHANGED <<clock, batch, ready, atlas_mock, telegram, dispatches, orchestrator, awaiting>>

ProbeNext == ProbeCommand

ProbeSpec == ProbeInit /\ [][ProbeNext]_vars

\* the command, leading whitespace dropped, starts with an allow-listed prefix
AllowListed(command) == \E prefix \in safe_prefixes : startswith(lstrip(command), prefix)

(***************************************************************************)
(* C15.  For every command that does not start, leading whitespace         *)
(* dropped, with an allow-listed prefix, probe_command returns a finding   *)
(* of confidence 0.0 with an error and creates no subprocess; a subprocess *)
(* is created only for a command that starts with an allow-listed prefix.  *)
(***************************************************************************)
C15_RejectedNeverSpawns ==
    pc = "done" =>
        LET command == tasks[1].input_data.command
        IN  /\ ~AllowListed(command)
               => /\ tasks[1].findings = <<Finding("command", 0, "set")>>
                  /\ last.result # "subprocess"
            /\ last.result = "subprocess" => AllowListed(command)

\* a command that has an allow-listed prefix inside it, not at its start, was rejected
C15_Witness ==
    /\ pc = "done"
    /\ ~AllowListed(tasks[1].input_data.command)
    /\ \E prefix \in safe_prefixes : contains(tasks[1].input_data.command, prefix)
    /\ tasks[1].findings = <<Finding("command", 0, "set")>>

IsPrefix(s, t) == Len(s) <= Len(t) /\ SubSeq(t, 1, Len(s)) = s

(***************************************************************************)
(* C16.  findings is append-only: every step of the loop leaves each       *)
(* task's findings a prefix of what they are after the step, so that the   *)
(* findings of an earlier state are a prefix of those of every later one.  *)
(***************************************************************************)
C16_FindingsAppendOnly ==
    [][\A i \in Ids : IsPrefix(tasks[i].findings, tasks'[i].findings)]_vars

\* a pass has appended to findings that earlier passes had stored
C16_Witness ==
    /\ last.op = "process"
    /\ Len(tasks[last.id].findings) >= 3
    /\ \E j, k \in 1 .. Len(tasks[last.id].findings) :
         tasks[last.id].findings[j] # tasks[last.id].findings[k]

(***************************************************************************)
(* The findings of one task on their own: passes of probes over the task's *)
(* input, each storing its findings with append_finding (loop.py 86-90),   *)
(* each followed by calculate_confidence over the stored findings and the  *)
(* update that stores its value (loop.py 93-146).  The inputs put every    *)
(* probe to work, alone or beside another.                                 *)
(***************************************************************************)
MaxPasses == 2   \* passes of probes over the task

ProbeInputs ==
    { InputData(Query, <<>>, 0, 0, <<>>),
      InputData(<<>>, Query, 0, 0, <<>>),
      InputData(<<>>, <<>>, 2, 0, <<>>),
      InputData(<<>>, <<>>, 0, 2, <<>>),
      InputData(<<>>, <<>>, 0, 0, CmdLs),
      InputData(<<>>, <<>>, 0, 0, CmdRm),
      InputData(Query, <<>>, 0, 0, CmdLs),
      InputData(<<>>, Query, 2, 0, <<>>) }

FindingsInit ==
    /\ \E input_data \in ProbeInputs : tasks = <<NewTask(1, 0, input_data)>>
    /\ clock = 0
    /\ pc = "findings"
    /\ batch = <<>>
    /\ ready = <<>>
    /\ atlas_mock = [patched |-> FALSE, returns |-> <<>>]
    /\ telegram = <<<<>>>>
    /\ dispatches = <<<<>>>>
    /\ last = Step("init", 0, FALSE, FALSE, "")
    /\ orchestrator = Started
    /\ awaiting = <<>>

\* loop.py 86-90
AppendPass ==
    /\ pc = "findings"
    /\ Len(tasks[1].findings) < MaxPasses * Len(determine_probes(tasks[1].input_data))
    /\ \E calls \in CallsOf(determine_probes(tasks[1].input_data), tasks[1].input_data,
                             atlas_mock) :
         LET probe_results == run_probes_over(determine_probes(tasks[1].input_data), calls)
         IN  /\ tasks' = AppendFindings(tasks, 1, probe_results)
             /\ last' = Step("append_finding", 1, FALSE, all_failed(probe_results),
                             [i \in 1 .. Len(calls) |-> calls[i].raised])
    /\ pc' = "appended"
    /\ UNCHANGED <<clock, batch, ready, atlas_mock, telegram, dispatches, orchestrator, awaiting>>

\* loop.py 93-146: the aggregate over the stored findings, and the update that stores it
Aggregate ==
    /\ pc = "appended"
    /\ tasks' = update_task_status(tasks, 1, "pending", None,
                                   Some(calculate_confidence(tasks[1].findings)), None)
    /\ last' = Step("calculate_confidence", 1, FALSE, last.all_failed, "")
    /\ pc' = "findings"
    /\ UNCHANGED <<clock, batch, ready, atlas_mock, telegram, dispatches, orchestrator, awaiting>>

FindingsNext ==
    \/ AppendPass
    \/ Aggregate

FindingsSpec == FindingsInit /\ [][FindingsNext]_vars

(***************************************************************************)
(* C17.  After the append_finding calls of a pass the confidence stored on *)
(* the task is the error-weighted aggregate of the stored findings, the    *)
(* value calculate_confidence has for them.                                *)
(***************************************************************************)
C17_AppendStoresAggregate ==
    pc = "appended" => tasks[1].confidence = calculate_confidence(tasks[1].findings)

(***************************************************************************)
(* The aggregate as it is defined: weight 1.0 for a finding that carries   *)
(* no error (error absent or null), 0.5 for a finding with an error;       *)
(* weights are doubled here to stay in the integers.                       *)
(***************************************************************************)
StatedWeight2(finding) == IF finding.error = "set" THEN 1 ELSE 2

RECURSIVE StatedSum2(_)
StatedSum2(findings) ==
    IF findings = <<>> THEN 0
    ELSE Head(findings).confidence * StatedWeight2(Head(findings)) + StatedSum2(Tail(findings))

RECURSIVE StatedTotal2(_)
StatedTotal2(findings) ==
    IF findings = <<>> THEN 0
    ELSE StatedWeight2(Head(findings)) + StatedTotal2(Tail(findings))

StatedAggregate(findings) ==
    IF findings = <<>> THEN Frac(0, 1)
    ELSE Frac(StatedSum2(findings), StatedTotal2(findings))

(***************************************************************************)
(* C18.  For every finding list the probes produce, calculate_confidence   *)
(* is sum(confidence_i * w_i) / sum(w_i) with w_i = 1.0 exactly for the    *)
(* findings without error (absent or null) and 0.5 for those with one, and *)
(* 0.0 for the empty list.                                                 *)
(***************************************************************************)
C18_AggregateAsStated ==
    /\ calculate_confidence(<<>>) = Frac(0, 1)
    /\ last.op = "calculate_confidence"
       => /\ tasks[1].confidence = calculate_confidence(tasks[1].findings)
          /\ tasks[1].confidence = StatedAggregate(tasks[1].findings)

(***************************************************************************)
(* C19.  For every finding list the probes produce in which every finding  *)
(* has an error set, the aggregate is exactly 0.0.                         *)
(***************************************************************************)
C19_AllErrorsAggregateZero ==
    ( /\ last.op = "calculate_confidence"
      /\ \A k \in 1 .. Len(tasks[1].findings) : tasks[1].findings[k].error = "set" )
    => tasks[1].confidence = Frac(0, 1)

\* a quotient of hundredths that lies in [0, 1]
InUnitInterval(f) == f[2] > 0 /\ 0 <= f[1] /\ f[1] <= 100 * f[2]

(***************************************************************************)
(* C20.  When the confidences of a task's findings lie in [0, 1], so does  *)
(* their aggregate, and so does the confidence stored on the task, be it   *)
(* written by append_finding or by the update that follows a pass.         *)
(***************************************************************************)
C20_ConfidenceInUnitInterval ==
    \A i \in Ids :
        (\A k \in 1 .. Len(tasks[i].findings) :
            tasks[i].findings[k].confidence \in 0 .. 100)
        => /\ InUnitInterval(calculate_confidence(tasks[i].findings))
           /\ InUnitInterval(tasks[i].confidence)

\* an aggregate strictly inside the interval, over findings of both weights
C20_Witness ==
    /\ last.op = "calculate_confidence"
    /\ tasks[1].confidence = calculate_confidence(tasks[1].findings)
    /\ tasks[1].confidence[2] > 1
    /\ \E j, k \in 1 .. Len(tasks[1].findings) :
         /\ tasks[1].findings[j].error = "absent"
         /\ tasks[1].findings[k].error # "absent"
         /\ tasks[1].findings[k].confidence > 0

(***************************************************************************)
(* C21.  The task store is written only by the loop: a call of the         *)
(* escalation engine (evaluate_and_escalate and the tier it selects) that  *)
(* returns normally leaves every stored task field as it was; what the     *)
(* store holds afterwards is only what _escalate_task itself wrote, which  *)
(* on a normal return is nothing.                                          *)
(***************************************************************************)
C21_EngineReturned ==
    /\ last'.op = "escalate"
    /\ ~last'.raised
    /\ last'.result # "import_error"

C21_EngineLeavesStoreUnchanged == [][C21_EngineReturned => tasks' = tasks]_vars

(***************************************************************************)
(* C22.  In each iteration the tasks given a probe pass are exactly the    *)
(* first (at most 5) tasks, by priority descending then created_at         *)
(* ascending, among the tasks that are pending with next_run_at null or    *)
(* not later than now: the batch the poll hands to the for loop is that    *)
(* prefix.  "Not later than now" is read on the clock: the instant         *)
(* next_run_at names has come.                                             *)
(***************************************************************************)
Instant(timestamp) == timestamp[1] * SecondsPerDay + timestamp[3]

Eligible(row, now) ==
    /\ row.status = "pending"
    /\ (row.next_run_at = None \/ Instant(row.next_run_at) <= now)

EligiblePrefix(store, limit, now) ==
    LET Where(row) == Eligible(row, now)
    IN  Limit(SortSeq(SelectSeq(store, Where), PendingOrder), limit)

C22_BatchIsEligiblePrefix ==
    last.op = "poll" => batch = EligiblePrefix(tasks, BATCH_LIMIT, clock)

(***************************************************************************)
(* start() and stop(), BackgroundOrchestrator, loop.py 30-50, with the     *)
(* _run_loop coroutines they create and cancel.  Here pc, batch and ready  *)
(* are sequences with one entry per coroutine created so far, coroutine k  *)
(* being the k-th one created; pc[k] is "poll", "process", "pass" (inside  *)
(* _process_task, the row already marked running), "escalate",             *)
(* "cancelled" (cancel() was called: CancelledError is raised at the await *)
(* the coroutine is suspended at, and no except clause of the loop catches *)
(* it) or "done".  Every step runs one coroutine from one await to a later *)
(* one, as the event loop does.                                            *)
(***************************************************************************)
MaxLoops == 3
MaxStops == 1
MaxLifecycleTasks == 1
MaxLifecycleTicks == 1

Loops == 1 .. Len(pc)

LifecycleInit ==
    /\ tasks = <<>>
    /\ clock = 0
    /\ pc = <<>>
    /\ batch = <<>>
    /\ ready = <<>>
    /\ atlas_mock = [patched |-> FALSE, returns |-> <<>>]
    /\ telegram = <<>>
    /\ dispatches = <<>>
    /\ last = Step("init", 0, FALSE, FALSE, "")
    /\ orchestrator = [running |-> FALSE, _task |-> None]
    /\ awaiting = <<>>

\* loop.py 30-38
Start ==
    /\ IF orchestrator.running
       THEN /\ last' = Step("start", 0, FALSE, FALSE, "already_running")
            /\ UNCHANGED <<pc, batch, ready, orchestrator>>
       ELSE /\ Len(pc) < MaxLoops
            /\ orchestrator' = [running |-> TRUE, _task |-> Some(Len(pc) + 1)]
            /\ pc' = Append(pc, "poll")
            /\ batch' = Append(batch, <<>>)
            /\ ready' = Append(ready, <<>>)
            /\ last' = Step("start", 0, FALSE, FALSE, "started")
    /\ UNCHANGED <<tasks, clock, atlas_mock, telegram, dispatches, awaiting>>

\* the task a coroutine is inside the probe pass of, 0 if none
InFlight(k) == IF pc[k] = "pass" THEN Head(batch[k]).id ELSE 0

\* loop.py 40-47: stop() up to its await; awaiting a finished task does not suspend
Stop ==
    /\ Len(awaiting) < MaxStops
    /\ IF orchestrator._task # None /\ pc[orchestrator._task[1]] # "done"
       THEN LET k == orchestrator._task[1]
            IN  /\ pc' = [pc EXCEPT ![k] = "cancelled"]
                /\ awaiting' = Append(awaiting, k)
                /\ orchestrator' = [orchestrator EXCEPT !.running = FALSE]
                /\ last' = Step("stop", InFlight(k), FALSE, FALSE, "awaiting")
       ELSE /\ orchestrator' = [running |-> FALSE, _task |-> None]
            /\ last' = Step("stop", 0, FALSE, FALSE, "completed")
            /\ UNCHANGED <<pc, awaiting>>
    /\ UNCHANGED <<tasks, clock, batch, ready, atlas_mock, telegram, dispatches>>

\* loop.py 47-50: a suspended stop() goes on once the loop it awaits has ended
StopResume ==
    /\ \E j \in 1 .. Len(awaiting) :
         /\ pc[awaiting[j]] = "done"
         /\ awaiting' = SubSeq(awaiting, 1, j - 1) \o SubSeq(awaiting, j + 1, Len(awaiting))
    /\ orchestrator' = [orchestrator EXCEPT !._task = None]
    /\ last' = Step("stop", 0, FALSE, FALSE, "completed")
    /\ UNCHANGED <<tasks, clock, pc, batch, ready, atlas_mock, telegram, dispatches>>

\* the cancelled coroutine is resumed with CancelledError and ends
LoopCancelled(k) ==
    /\ pc[k] = "cancelled"
    /\ pc' = [pc EXCEPT ![k] = "done"]
    /\ last' = Step("cancelled", 0, FALSE, FALSE, "")
    /\ UNCHANGED <<tasks, clock, batch, ready, atlas_mock, telegram, dispatches,
                   orchestrator, awaiting>>

\* loop.py 54-57
LoopPoll(k) ==
    /\ pc[k] = "poll"
    /\ IF orchestrator.running
       THEN /\ batch' = [batch EXCEPT ![k] = get_pending_background_tasks(tasks, BATCH_LIMIT,
                                                                          clock)]
            /\ pc' = [pc EXCEPT ![k] = "process"]
            /\ last' = Step("poll", 0, FALSE, FALSE, "")
       ELSE /\ pc' = [pc EXCEPT ![k] = "done"]
            /\ last' = Step("exit", 0, FALSE, FALSE, "")
            /\ UNCHANGED batch
    /\ UNCHANGED <<tasks, clock, ready, atlas_mock, telegram, dispatches, orchestrator,
                   awaiting>>

\* loop.py 59-60 and 80: _process_task up to the end of its first await
LoopClaim(k) ==
    /\ pc[k] = "process"
    /\ batch[k] # <<>>
    /\ tasks' = update_task_status(tasks, Head(batch[k]).id, "running", None, None, None)
    /\ pc' = [pc EXCEPT ![k] = "pass"]
    /\ last' = Step("claim", Head(batch[k]).id, FALSE, FALSE, "")
    /\ UNCHANGED <<clock, batch, ready, atlas_mock, telegram, dispatches, orchestrator,
                   awaiting>>

\* loop.py 82-164: the rest of _process_task
LoopPass(k) ==
    /\ pc[k] = "pass"
    /\ LET task == Head(batch[k])
       IN  /\ tasks[task.id].retry_count <= MaxRetryCount
           /\ \E probe_results \in run_probes(task.input_data, atlas_mock) :
                /\ Len(tasks[task.id].findings) + Len(probe_results) <= MaxFindings
                /\ \E exc \in NoExc .. Len(probe_results) + 1 :
                     /\ tasks' = process_task(tasks, task.id, probe_results, exc, clock)
                     /\ last' = Step("process", task.id, exc # NoExc,
                                     all_failed(probe_results), "")
           /\ atlas_mock' = MockAfter(task.input_data, atlas_mock)
    /\ batch' = [batch EXCEPT ![k] = Tail(@)]
    /\ pc' = [pc EXCEPT ![k] = "process"]
    /\ UNCHANGED <<clock, ready, telegram, dispatches, orchestrator, awaiting>>

\* loop.py 63-65
LoopFetchReady(k) ==
    /\ pc[k] = "process"
    /\ batch[k] = <<>>
    /\ ready' = [ready EXCEPT ![k] = get_tasks_ready_for_escalation(tasks,
                                                                    HIGH_CONFIDENCE_THRESHOLD)]
    /\ pc' = [pc EXCEPT ![k] = "escalate"]
    /\ last' = Step("fetch_ready", 0, FALSE, FALSE, "")
    /\ UNCHANGED <<tasks, clock, batch, atlas_mock, telegram, dispatches, orchestrator,
                   awaiting>>

\* loop.py 66-67
LoopEscalate(k) ==
    /\ pc[k] = "escalate"
    /\ ready[k] # <<>>
    /\ \E env \in EscalationEnvs(Head(ready[k]).confidence) : Escalated(Head(ready[k]), env)
    /\ ready' = [ready EXCEPT ![k] = Tail(@)]
    /\ UNCHANGED <<clock, pc, batch, atlas_mock, orchestrator, awaiting>>

\* loop.py 72; the loops' sleeps end one after another
LoopSleep(k) ==
    /\ pc[k] = "escalate"
    /\ ready[k] = <<>>
    /\ clock < MaxLifecycleTicks * POLL_INTERVAL
    /\ clock' = clock + POLL_INTERVAL
    /\ pc' = [pc EXCEPT ![k] = "poll"]
    /\ last' = Step("sleep", 0, FALSE, FALSE, "")
    /\ UNCHANGED <<tasks, batch, ready, atlas_mock, telegram, dispatches, orchestrator,
                   awaiting>>

CreateLifecycleTask == CreateTask /\ Len(tasks') <= MaxLifecycleTasks

LifecycleNext ==
    \/ CreateLifecycleTask
    \/ Start
    \/ Stop
    \/ StopResume
    \/ \E k \in Loops : LoopCancelled(k)
    \/ \E k \in Loops : LoopPoll(k)
    \/ \E k \in Loops : LoopClaim(k)
    \/ \E k \in Loops : LoopPass(k)
    \/ \E k \in Loops : LoopFetchReady(k)
    \/ \E k \in Loops : LoopEscalate(k)
    \/ \E k \in Loops : LoopSleep(k)

LifecycleSpec == LifecycleInit /\ [][LifecycleNext]_vars

\* the _run_loop coroutines that go on running: not ended, not being cancelled
Live == { k \in Loops : pc[k] \notin {"cancelled", "done"} }

(***************************************************************************)
(* C23.  Under any interleaving of start() and stop() calls, a start()     *)
(* issued while a stop() awaits cancellation included: at most one         *)
(* _run_loop coroutine is live, no task id is inside two probe passes at   *)
(* the same time, and a completed stop() leaves running False and _task    *)
(* None.                                                                   *)
(***************************************************************************)
C23_AtMostOneLive == Cardinality(Live) <= 1

C23_NoOverlap ==
    \A k, j \in Loops : k # j /\ InFlight(k) # 0 => InFlight(k) # InFlight(j)

C23_StopCompleted ==
    last.op = "stop" /\ last.result = "completed"
        => ~orchestrator.running /\ orchestrator._task = None

C23_OneLoopAtATime == C23_AtMostOneLive /\ C23_NoOverlap /\ C23_StopCompleted

(***************************************************************************)
(* C24.  run_probes never propagates a probe failure: whichever applicable *)
(* probes raise, the findings of the pass are one per applicable probe, in *)
(* selector order; the finding of a probe that raised is {probe, error =   *)
(* the exception's text, confidence 0.0}, and the probes after it have     *)
(* been run as well.                                                       *)
(***************************************************************************)
C24_PassFindings ==
    LET n == Len(determine_probes(tasks[1].input_data))
    IN  SubSeq(tasks[1].findings, Len(tasks[1].findings) - n + 1, Len(tasks[1].findings))

C24_RunProbesAbsorbs ==
    pc = "appended" =>
        LET probe_types == determine_probes(tasks[1].input_data)
        IN  /\ Len(tasks[1].findings) >= Len(probe_types)
            /\ Len(tasks[1].findings) % Len(probe_types) = 0
            /\ \A i \in 1 .. Len(probe_types) :
                 /\ C24_PassFindings[i].probe = probe_types[i]
                 /\ last.result[i] => C24_PassFindings[i] = Finding(probe_types[i], 0, "set")

\* the first of two applicable probes raised, the second returned a result
C24_Witness ==
    /\ pc = "appended"
    /\ Len(determine_probes(tasks[1].input_data)) = 2
    /\ last.result = <<TRUE, FALSE>>
    /\ C24_PassFindings[2].confidence > 0

(***************************************************************************)
(* The pattern-search probe on its own: a task with a search pattern, and  *)
(* one call of probe_grep on it for every tool and every output of the     *)
(* search.                                                                 *)
(***************************************************************************)
MaxMatchFiles == 2
MaxFileCount == 20

CountLines ==
    UNION { [1 .. n -> 1 .. MaxFileCount] : n \in 0 .. MaxMatchFiles }

GrepInit ==
    /\ tasks = <<NewTask(1, 0, InputData(<<>>, Query, 0, 0, <<>>))>>
    /\ clock = 0
    /\ pc = "grep"
    /\ batch = <<>>
    /\ ready = <<>>
    /\ atlas_mock = [patched |-> FALSE, returns |-> <<>>]
    /\ telegram = <<<<>>>>
    /\ dispatches = <<<<>>>>
    /\ last = Step("init", 0, FALSE, FALSE, "")
    /\ orchestrator = Started
    /\ awaiting = <<>>

ProbeGrep ==
    /\ pc = "grep"
    /\ \E rg_installed \in BOOLEAN, count_lines \in CountLines, failed \in BOOLEAN :
         /\ failed => count_lines = <<>>
         /\ tasks' = append_finding(tasks, 1, pattern_search(rg_installed, count_lines, failed))
         /\ last' = Step("probe_grep", 1, FALSE, failed,
                         [rg_installed |-> rg_installed, count_lines |-> count_lines])
    /\ pc' = "grep_done"
    /\ UNCHANGED <<clock, batch, ready, atlas_mock, telegram, dispatches, orchestrator, awaiting>>

GrepNext == ProbeGrep

GrepSpec == GrepInit /\ [][GrepNext]_vars

\* the total match count of the search that ran, and the bands of the claim
C25_Matches == sum_counts(last.result.count_lines)

C25_Banded(n) ==
    IF n = 0 THEN 10
    ELSE IF n >= 1 /\ n <= 5 THEN 90
    ELSE IF n >= 6 /\ n <= 20 THEN 70
    ELSE 50

C25_Searched == pc = "grep_done" /\ ~last.all_failed

(***************************************************************************)
(* C25, as stated.  For every total match count n the pattern-search       *)
(* probe's confidence is 0.1 if n = 0, 0.9 if 1 <= n <= 5, 0.7 if          *)
(* 6 <= n <= 20 and 0.5 if n > 20.                                         *)
(***************************************************************************)
C25_BandsAlways ==
    C25_Searched => tasks[1].findings[1].confidence = C25_Banded(C25_Matches)

(***************************************************************************)
(* C25, as the code has it.  The bands are those of the search run by rg;  *)
(* when rg is not installed the fallback search gives 0.5 for any match    *)
(* and 0.1 for none.                                                       *)
(***************************************************************************)
C25_BandsOfRipgrep ==
    C25_Searched =>
        tasks[1].findings[1].confidence =
            IF last.result.rg_installed THEN C25_Banded(C25_Matches)
            ELSE IF C25_Matches > 0 THEN 50 ELSE 10

C25_Witness ==
    /\ C25_Searched
    /\ last.result.rg_installed
    /\ C25_Matches = 40
    /\ tasks[1].findings[1].confidence = 50

(***************************************************************************)
(* The health-check probe on its own: a task with a list of URLs, and one  *)
(* call of probe_api_check on it for every answer of the URLs it checks.   *)
(* A response is Some(status code), or None when client.get raised.        *)
(***************************************************************************)
MaxUrls == 6
URL_LIMIT == 5

Responses == {Some(200), Some(404), None}

\* probes.py 297-319: the URLs that answered with a status below 400
RECURSIVE healthy_count(_)
healthy_count(responses) ==
    IF responses = <<>> THEN 0
    ELSE (IF Head(responses) # None /\ Head(responses)[1] < 400 THEN 1 ELSE 0)
         + healthy_count(Tail(responses))

ApiCheckInit ==
    /\ \E urls \in 1 .. MaxUrls : tasks = <<NewTask(1, 0, InputData(<<>>, <<>>, 0, urls, <<>>))>>
    /\ clock = 0
    /\ pc = "api_check"
    /\ batch = <<>>
    /\ ready = <<>>
    /\ atlas_mock = [patched |-> FALSE, returns |-> <<>>]
    /\ telegram = <<<<>>>>
    /\ dispatches = <<<<>>>>
    /\ last = Step("init", 0, FALSE, FALSE, "")
    /\ orchestrator = Started
    /\ awaiting = <<>>

\* probes.py 275-327: responses are the answers of urls[:5], in order
ProbeApiCheck ==
    /\ pc = "api_check"
    /\ \E responses \in [1 .. Min(tasks[1].input_data.check_urls, URL_LIMIT) -> Responses] :
         /\ tasks' = append_finding(tasks, 1,
                        probe_api_check(tasks[1].input_data.check_urls,
                                        healthy_count(responses)))
         /\ last' = Step("probe_api_check", 1, FALSE, FALSE, responses)
    /\ pc' = "api_checked"
    /\ UNCHANGED <<clock, batch, ready, atlas_mock, telegram, dispatches, orchestrator, awaiting>>

ApiCheckNext == ProbeApiCheck

ApiCheckSpec == ApiCheckInit /\ [][ApiCheckNext]_vars

(***************************************************************************)
(* C26.  For every non-empty URL list the health-check probe checks at     *)
(* most 5 URLs, and its confidence is the number of checked URLs that      *)
(* returned a status below 400 divided by the number of URLs checked: 1.0  *)
(* when every checked URL is healthy, however many were supplied.          *)
(***************************************************************************)
C26_HealthyOverChecked ==
    pc = "api_checked" =>
        LET checked == Len(last.result)
            healthy == Cardinality({ i \in 1 .. checked :
                                       last.result[i] # None /\ last.result[i][1] < 400 })
        IN  /\ checked <= 5
            /\ tasks[1].findings[1].confidence = (healthy * 100) \div checked
            /\ healthy = checked => tasks[1].findings[1].confidence = 100

(***************************************************************************)
(* C27.  A task is in status running only while a loop is inside its probe *)
(* pass: once the pass has ended, normally, by an exception, or because    *)
(* stop() cancelled the loop in the middle of it, the task is pending or   *)
(* failed.  A running task therefore has a coroutine that is inside its    *)
(* pass, or one that was cancelled and has yet to be resumed.              *)
(***************************************************************************)
C27_RunningOnlyInPass ==
    \A i \in Ids :
        tasks[i].status = "running"
        => \E k \in Loops : InFlight(k) = i \/ pc[k] = "cancelled"

C30_InBatch(i) == \E j \in 1 .. Len(batch) : batch[j].id = i

C30_BackoffExpires ==
    last.op = "poll" =>
        \A i \in Ids :
            tasks[i].status = "pending" /\ tasks[i].next_run_at # None
            => (C30_InBatch(i) <=> Instant(tasks[i].next_run_at) <= clock)

(***************************************************************************)
(* The loop on a store that holds more pending tasks than one batch: six   *)
(* tasks, in the order they were created, whose input names nothing to     *)
(* probe, so that every pass leaves them pending (loop.py 116-138).  No    *)
(* pass raises here.  To keep the states finite retry_count is followed up *)
(* to MaxRetryCount (the code only compares it with max_retries) and the   *)
(* clock up to MaxTicks polls (no task here has a next_run_at).  The loop  *)
(* is one coroutine that always takes its next step: weak fairness.        *)
(***************************************************************************)
MaxQueued == 6

Saturated(store) ==
    [i \in 1 .. Len(store) |-> [store[i] EXCEPT !.retry_count = Min(@, MaxRetryCount)]]

StarvationInit ==
    /\ \E priorities \in [1 .. MaxQueued -> {0, 1}] :
         tasks = [i \in 1 .. MaxQueued |->
                    NewTask(i, priorities[i], InputData(<<>>, <<>>, 0, 0, <<>>))]
    /\ clock = 0
    /\ pc = "poll"
    /\ batch = <<>>
    /\ ready = <<>>
    /\ atlas_mock = [patched |-> FALSE, returns |-> <<>>]
    /\ telegram = [i \in 1 .. MaxQueued |-> <<>>]
    /\ dispatches = [i \in 1 .. MaxQueued |-> <<>>]
    /\ last = Step("init", 0, FALSE, FALSE, "")
    /\ orchestrator = Started
    /\ awaiting = <<>>

\* loop.py 59-60, one turn of the for loop, nothing raising
StarvationPass ==
    /\ pc = "process"
    /\ batch # <<>>
    /\ LET task == Head(batch)
       IN  /\ \E probe_results \in run_probes(task.input_data, atlas_mock) :
                /\ tasks' = Saturated(process_task(tasks, task.id, probe_results, NoExc, clock))
                /\ last' = Step("process", task.id, FALSE, all_failed(probe_results), "")
           /\ atlas_mock' = MockAfter(task.input_data, atlas_mock)
    /\ batch' = Tail(batch)
    /\ UNCHANGED <<clock, pc, ready, telegram, dispatches, orchestrator, awaiting>>

\* loop.py 72
StarvationSleep ==
    /\ pc = "escalate"
    /\ ready = <<>>
    /\ clock' = Min(clock + POLL_INTERVAL, MaxTicks * POLL_INTERVAL)
    /\ pc' = "poll"
    /\ last' = Step("sleep", 0, FALSE, FALSE, "")
    /\ UNCHANGED <<tasks, batch, ready, atlas_mock, telegram, dispatches, orchestrator, awaiting>>

StarvationNext ==
    \/ Poll
    \/ StarvationPass
    \/ FetchReady
    \/ StarvationSleep

StarvationSpec == StarvationInit /\ [][StarvationNext]_vars /\ WF_vars(StarvationNext)

(***************************************************************************)
(* C29.  No pending task is starved: under a fairly scheduled loop a task  *)
(* that is pending with no next_run_at eventually receives a probe pass,   *)
(* whatever tasks of equal or higher priority stay pending beside it, and  *)
(* despite the batch limit of 5.                                           *)
(***************************************************************************)
C29_NoStarvation ==
    \A i \in 1 .. MaxQueued :
        (tasks[i].status = "pending" /\ tasks[i].next_run_at = None)
            ~> (last.op = "process" /\ last.id = i)

====
